---- MODULE Spec2Model ----
(***************************************************************************)
(* The career-planner pipeline of Prototype.py (CareerCounselorAgent.run)  *)
(* and of app.py (the "Generate My Path" button handler).                  *)
(*                                                                         *)
(* One pipeline run is a sequence of steps separated by the blocking       *)
(* external calls it makes: the two generation calls to the language       *)
(* model and one search call per video/reading step.  The language model   *)
(* and the two search providers are outside the program: whatever they     *)
(* answer (any schema-conformant value, or an exception) is drawn with \E. *)
(*                                                                         *)
(* Python values: a str is a TLA+ string; a formatted string is modelled   *)
(* by the operator that builds it; None is the value None below.           *)
(***************************************************************************)
EXTENDS Integers, Sequences, FiniteSets, TLC

VARIABLES
    program,              \* which script runs: "Prototype" (CLI) or "app" (Streamlit)
    session_state,        \* app.py: st.session_state of each browser session
    pc,                   \* where each session's script run stands
    target_domain,        \* the domain string the caller supplied for the run
    user_learning_style,  \* the learning style the caller supplied for the run
    analysis_result,      \* the run's local analysis_result
    learning_path_result, \* the run's local learning_path_result.path
    step_idx,             \* position of the for-loop over learning_path_result.path
    ui,                   \* what the run has shown to the caller (st.* / print)
    calls                 \* the run's calls to the agent's methods, in order

vars == <<program, session_state, pc, target_domain, user_learning_style,
          analysis_result, learning_path_result, step_idx, ui, calls>>

-----------------------------------------------------------------------------
(* Bounds of the model *)

MaxPathLen == 2

Sessions == {"A", "B"}

\* Python's None where a str is expected (LearningStep.content in app.py)
None == "<None>"

\* Python's None where a DomainAnalysis is expected (session_state.analysis_result)
NoAnalysis == [is_none |-> TRUE]

\* What st.text_input / input() can deliver; "" is the empty text box
DomainInputs == {"", "AI in Healthcare", "Renewable Energy"}

\* The values of the selectbox of app.py
LearningStyles == {"visual", "reading", "practical"}

\* The keys of style_map of Prototype.py
StyleChoices == {"1", "2", "3"}

style_map(choice) ==
    CASE choice = "1" -> "visual"
      [] choice = "2" -> "reading"
      [] choice = "3" -> "practical"

-----------------------------------------------------------------------------
(* What the language model can answer: any value of the pydantic schema *)

Role1 ==
    [title |-> "Role 1", description |-> "d1",
     required_skills |-> <<"solar panel design", "grid storage">>]

Role2 == [title |-> "Role 2", description |-> "d2", required_skills |-> <<"ml">>]

\* DomainAnalysis: emerging_roles is a List[EmergingRole], possibly empty.  The
\* other fields are only displayed.
Analyses ==
    { [emerging_roles |-> r] :
        r \in { <<>>, <<Role1>>, <<Role1, Role2>>, <<Role2, Role1>> } }

\* LearningStep.type is declared str: the schema accepts any string
StepTypes == {"video", "reading", "project", "quiz"}

Topics == {"topic 1", "topic 2"}

\* LearningStep objects the parser accepts at position i of the list
LearningSteps(i) ==
    { [step |-> i, title |-> "title", type |-> t, content |-> c] :
        t \in StepTypes, c \in Topics }

\* LearningPath.path: a List[LearningStep], possibly empty
LearningPaths ==
    UNION { { p \in [1..k -> UNION { LearningSteps(i) : i \in 1..k }] :
                \A i \in 1..k : p[i].step = i } : k \in 0..MaxPathLen }

\* Exceptions a generation call can raise
GenerationErrors == {"ValidationError", "Exception"}

-----------------------------------------------------------------------------
(* The search providers *)

VideoIds == {"abc123"}

ArticleUrls == {"https://example.org/article"}

\* f"https://www.youtube.com/watch?v={video_id}"
YouTubeUrl(video_id) ==
    CASE video_id = "abc123" -> "https://www.youtube.com/watch?v=abc123"

\* What youtube_service.search().list(...).execute() can do
YouTubeOutcomes ==
    { [kind |-> "items", item |-> v] : v \in VideoIds }
      \cup { [kind |-> "empty", item |-> None], [kind |-> "error", item |-> None] }

\* What search(...) can do
WebSearchOutcomes ==
    { [kind |-> "items", item |-> u] : u \in ArticleUrls }
      \cup { [kind |-> "empty", item |-> None], [kind |-> "error", item |-> None] }

\* search_query of _search_youtube_video: f"{domain} {query} tutorial" in app.py,
\* f"{query} tutorial" in Prototype.py
YouTubeQuery(prog, query, domain) ==
    IF prog = "app" THEN <<domain, query, "tutorial">> ELSE <<query, "tutorial">>

\* search_query of _search_for_article: f"{domain} {query} article tutorial" in
\* app.py, f"{query} article tutorial" in Prototype.py
ArticleQuery(prog, query, domain) ==
    IF prog = "app" THEN <<domain, query, "article tutorial">>
    ELSE <<query, "article tutorial">>

\* How a call ends: it returns a value or it raises an exception
Returns(value) == [raised |-> FALSE, value |-> value]

Raises(exc) == [raised |-> TRUE, value |-> exc]

\* _search_youtube_video without its try/except: the provider's error leaves it
search_youtube_video_unguarded(prog, outcome) ==
    IF outcome.kind = "items" THEN Returns(YouTubeUrl(outcome.item))
    ELSE IF outcome.kind = "empty"
    THEN Returns(IF prog = "app" THEN None ELSE "No relevant video found.")
    ELSE Raises("Exception")

\* _search_youtube_video, given what the provider did: the try block returns the
\* URL of the first item, or the not-found value; the except clause catches the
\* provider's error and returns the failure value
search_youtube_video(prog, outcome) ==
    IF outcome.kind = "items" THEN Returns(YouTubeUrl(outcome.item))
    ELSE IF outcome.kind = "empty"
    THEN Returns(IF prog = "app" THEN None ELSE "No relevant video found.")
    ELSE Returns(IF prog = "app" THEN None
                 ELSE "Could not fetch video link due to an API error.")

\* _search_for_article, given what the provider did: next(search_results, default)
\* in the try block, the failure value from the except clause
search_for_article(prog, outcome) ==
    IF outcome.kind = "items" THEN Returns(outcome.item)
    ELSE IF outcome.kind = "empty"
    THEN Returns(IF prog = "app" THEN None ELSE "No relevant article found.")
    ELSE Returns(IF prog = "app" THEN None
                 ELSE "Could not fetch article link due to a search error.")

\* What the except clause of a resolver shows (st.warning / print)
ResolverWarning(prog, fn) ==
    [kind |-> IF prog = "app" THEN "warning" ELSE "print",
     text |-> IF fn = "_search_youtube_video" THEN "YouTube API Error"
              ELSE "Web Search Error"]

-----------------------------------------------------------------------------
(* The agent's generation methods: what they hand to the chain *)

RECURSIVE Join(_)
\* ", ".join(skills)
Join(skills) ==
    IF Len(skills) = 0 THEN <<>>
    ELSE IF Len(skills) = 1 THEN <<skills[1]>>
    ELSE <<skills[1], ", ">> \o Join(Tail(skills))

\* get_domain_analysis(domain): the call and the variables of analysis_chain.invoke
get_domain_analysis(domain) ==
    [ev |-> "call", fn |-> "get_domain_analysis",
     args |-> [domain |-> domain],
     request |-> [domain |-> domain]]

\* get_learning_path(domain, skills, style): the call and the variables of
\* learning_path_chain.invoke
get_learning_path(domain, skills, style) ==
    [ev |-> "call", fn |-> "get_learning_path",
     args |-> [domain |-> domain, skills |-> skills, style |-> style],
     request |-> [domain |-> domain, key_skills |-> Join(skills),
                  learning_style |-> style]]

\* A call of one of the two resolvers for the step at position i, with the query
\* it sends to its provider
ResolverCall(prog, fn, i, query, domain) ==
    [ev |-> "call", fn |-> fn, at |-> i,
     args |-> IF prog = "app" THEN [query |-> query, domain |-> domain]
              ELSE [query |-> query],
     request |-> IF fn = "_search_youtube_video"
                 THEN YouTubeQuery(prog, query, domain)
                 ELSE ArticleQuery(prog, query, domain)]

Return(fn, value) == [ev |-> "return", fn |-> fn, value |-> value]

Raise(fn, exc) == [ev |-> "raise", fn |-> fn, exc |-> exc]

-----------------------------------------------------------------------------
(* The conditions of the pipeline *)

\* A handler that never reuses the session's analysis
is_new_domain_always(target, last_domain) == TRUE

\* app.py: is_new_domain
is_new_domain(target, last_domain) == target # last_domain

\* "not analysis_result or not analysis_result.emerging_roles" (app.py),
\* "not analysis_result.emerging_roles" (Prototype.py)
NoRolesIdentified(a) == a = NoAnalysis \/ Len(a.emerging_roles) = 0

\* The skills of the last role instead of the first
skills_of_last_role(a) == a.emerging_roles[Len(a.emerging_roles)].required_skills

\* analysis_result.emerging_roles[0].required_skills
skills_to_learn(a) == a.emerging_roles[1].required_skills

\* A loop body whose second branch is an else: every non-video step is searched
ResolverForAnyStep(step) ==
    IF step.type = "video" THEN "_search_youtube_video" ELSE "_search_for_article"

\* The resolver the loop body picks for a step: "none" when neither branch is taken
ResolverFor(step) ==
    IF step.type = "video" THEN "_search_youtube_video"
    ELSE IF step.type = "reading" THEN "_search_for_article"
    ELSE "none"

\* The query the loop body passes to the resolver
QueryOf(step) == step.content

\* A loop that walks the list from its end
PositionReversed(path, k) == Len(path) - k + 1

\* A loop that works on the first step in every pass
PositionFirst(path, k) == 1

\* "for step in learning_path_result.path": the list position visited by the
\* k-th pass of the loop
PositionOf(path, k) == k

\* The resolver's value stored in the wrong field of the step
AssignTitle(path, i, value) == [path EXCEPT ![i].title = value]

\* "step.content = <resolver's value>" on the step at position i
AssignContent(path, i, value) == [path EXCEPT ![i].content = value]

\* The message of the no-roles branch
NoRolesMessage(prog) ==
    [kind |-> IF prog = "app" THEN "warning" ELSE "print",
     text |-> "No emerging roles were identified. Cannot generate a learning path."]

\* The message after the enrichment loop: st.success(...) / the RESULTS print
SuccessMessage(prog) ==
    IF prog = "app"
    THEN [kind |-> "success", text |-> "Your personalized career plan is ready!"]
    ELSE [kind |-> "print", text |-> "RESULTS"]

\* The message of the except clause that catches exc
ErrorMessage(prog, exc) ==
    [kind |-> IF prog = "app" THEN "error" ELSE "print",
     text |-> IF exc = "ValidationError" THEN "Validation Error"
              ELSE "An unexpected error occurred"]

EmptyDomainMessage == [kind |-> "warning", text |-> "Please enter a career domain."]

CachedInfoMessage ==
    [kind |-> "info",
     text |-> "Domain analysis already complete. Generating new learning path..."]

\* The step type the prompt of get_learning_path asks for, per learning style
StyleType(style) ==
    CASE style = "visual" -> "video"
      [] style = "reading" -> "reading"
      [] style = "practical" -> "project"

-----------------------------------------------------------------------------
(* Initial state: the script has been loaded and nothing was asked yet *)

Init ==
    /\ program \in {"Prototype", "app"}
    /\ session_state = [s \in Sessions |->
                          [analysis_result |-> NoAnalysis, last_domain |-> ""]]
    /\ pc = [s \in Sessions |-> "idle"]
    /\ target_domain = [s \in Sessions |-> ""]
    /\ user_learning_style = [s \in Sessions |-> "visual"]
    /\ analysis_result = [s \in Sessions |-> NoAnalysis]
    /\ learning_path_result = [s \in Sessions |-> <<>>]
    /\ step_idx = [s \in Sessions |-> 0]
    /\ ui = [s \in Sessions |-> <<>>]
    /\ calls = [s \in Sessions |-> <<>>]

-----------------------------------------------------------------------------
(* The steps of a run.  Each action is the code between two blocking calls. *)

\* A pipeline without the no-roles branch: the skills of the first role, if any,
\* go straight to get_learning_path
AfterAnalysisUnchecked(s, domain, style, a, shown, called) ==
    /\ analysis_result' = [analysis_result EXCEPT ![s] = a]
    /\ ui' = [ui EXCEPT ![s] = shown]
    /\ calls' = [calls EXCEPT ![s] =
          Append(called,
                 get_learning_path(domain,
                                   IF NoRolesIdentified(a) THEN <<>>
                                   ELSE skills_to_learn(a),
                                   style))]
    /\ pc' = [pc EXCEPT ![s] = "path"]

\* The code after the analysis is known (Prototype.py 146-154, app.py 196-203):
\* stop with the no-roles message, or call get_learning_path
AfterAnalysis(s, domain, style, a, shown, called) ==
    /\ analysis_result' = [analysis_result EXCEPT ![s] = a]
    /\ IF NoRolesIdentified(a)
       THEN /\ ui' = [ui EXCEPT ![s] = Append(shown, NoRolesMessage(program))]
            /\ calls' = [calls EXCEPT ![s] = called]
            /\ pc' = [pc EXCEPT ![s] = "done"]
       ELSE /\ ui' = [ui EXCEPT ![s] = shown]
            /\ calls' = [calls EXCEPT ![s] =
                  Append(called, get_learning_path(domain, skills_to_learn(a), style))]
            /\ pc' = [pc EXCEPT ![s] = "path"]

\* Prototype.py: run() reads the domain and the style and calls get_domain_analysis
Run(s) ==
    /\ program = "Prototype"
    /\ pc[s] = "idle"
    /\ \E domain \in DomainInputs, style_choice \in StyleChoices :
         /\ target_domain' = [target_domain EXCEPT ![s] = domain]
         /\ user_learning_style' =
                [user_learning_style EXCEPT ![s] = style_map(style_choice)]
         /\ calls' = [calls EXCEPT ![s] = <<get_domain_analysis(domain)>>]
    /\ pc' = [pc EXCEPT ![s] = "analysis"]
    /\ UNCHANGED <<program, session_state, analysis_result, learning_path_result,
                   step_idx, ui>>

\* app.py: a click on "Generate My Path" reruns the script with the widgets' values
GenerateMyPath(s) ==
    /\ program = "app"
    /\ pc[s] \in {"idle", "done"}
    /\ \E domain \in DomainInputs, style \in LearningStyles :
         /\ target_domain' = [target_domain EXCEPT ![s] = domain]
         /\ user_learning_style' = [user_learning_style EXCEPT ![s] = style]
         /\ learning_path_result' = [learning_path_result EXCEPT ![s] = <<>>]
         /\ step_idx' = [step_idx EXCEPT ![s] = 0]
         /\ IF domain = ""
            THEN /\ ui' = [ui EXCEPT ![s] = <<EmptyDomainMessage>>]
                 /\ calls' = [calls EXCEPT ![s] = <<>>]
                 /\ pc' = [pc EXCEPT ![s] = "done"]
                 /\ analysis_result' = [analysis_result EXCEPT ![s] = NoAnalysis]
            ELSE IF is_new_domain(domain, session_state[s].last_domain)
            THEN /\ ui' = [ui EXCEPT ![s] = <<>>]
                 /\ calls' = [calls EXCEPT ![s] = <<get_domain_analysis(domain)>>]
                 /\ pc' = [pc EXCEPT ![s] = "analysis"]
                 /\ analysis_result' = [analysis_result EXCEPT ![s] = NoAnalysis]
            ELSE AfterAnalysis(s, domain, style, session_state[s].analysis_result,
                               <<CachedInfoMessage>>, <<>>)
    /\ UNCHANGED <<program, session_state>>

\* A cache kept in one slot that every session reads and writes
StoreAnalysisShared(state, s, a, domain) ==
    [t \in Sessions |-> [analysis_result |-> a, last_domain |-> domain]]

\* A handler that stores the analysis and forgets the domain it was made for
StoreAnalysisOnly(state, s, a, domain) ==
    [state EXCEPT ![s].analysis_result = a]

\* app.py 191-192: st.session_state.analysis_result and .last_domain of the
\* session that runs the script are assigned
StoreAnalysis(state, s, a, domain) ==
    [state EXCEPT ![s] = [analysis_result |-> a, last_domain |-> domain]]

\* get_domain_analysis returns a DomainAnalysis
AnalysisReturns(s) ==
    /\ pc[s] = "analysis"
    /\ \E a \in Analyses :
         /\ session_state' =
              IF program = "app"
              THEN StoreAnalysis(session_state, s, a, target_domain[s])
              ELSE session_state
         /\ AfterAnalysis(s, target_domain[s], user_learning_style[s], a, ui[s],
                          Append(calls[s], Return("get_domain_analysis", a)))
    /\ UNCHANGED <<program, target_domain, user_learning_style,
                   learning_path_result, step_idx>>

\* A pipeline that calls the failed generation function once more
GenerationRaisesRetry(s) ==
    /\ pc[s] \in {"analysis", "path"}
    /\ \E exc \in GenerationErrors :
         LET fn == IF pc[s] = "analysis" THEN "get_domain_analysis"
                   ELSE "get_learning_path"
             again == \A k \in 1..Len(calls[s]) : calls[s][k].ev # "raise"
         IN  /\ calls' = [calls EXCEPT ![s] =
                   IF again
                   THEN Append(Append(@, Raise(fn, exc)), calls[s][Len(calls[s])])
                   ELSE Append(@, Raise(fn, exc))]
             /\ ui' = [ui EXCEPT ![s] =
                   IF again THEN @ ELSE Append(@, ErrorMessage(program, exc))]
             /\ pc' = [pc EXCEPT ![s] = IF again THEN @ ELSE "done"]
    /\ UNCHANGED <<program, session_state, target_domain, user_learning_style,
                   analysis_result, learning_path_result, step_idx>>

\* A generation call raises: the except clauses show the error and the run ends
GenerationRaises(s) ==
    /\ pc[s] \in {"analysis", "path"}
    /\ \E exc \in GenerationErrors :
         /\ calls' = [calls EXCEPT ![s] =
               Append(@, Raise(IF pc[s] = "analysis" THEN "get_domain_analysis"
                               ELSE "get_learning_path", exc))]
         /\ ui' = [ui EXCEPT ![s] = Append(@, ErrorMessage(program, exc))]
    /\ pc' = [pc EXCEPT ![s] = "done"]
    /\ UNCHANGED <<program, session_state, target_domain, user_learning_style,
                   analysis_result, learning_path_result, step_idx>>

\* get_learning_path returns a LearningPath: the for-loop starts
PathReturns(s) ==
    /\ pc[s] = "path"
    /\ \E p \in LearningPaths :
         /\ learning_path_result' = [learning_path_result EXCEPT ![s] = p]
         /\ calls' = [calls EXCEPT ![s] = Append(@, Return("get_learning_path", p))]
    /\ step_idx' = [step_idx EXCEPT ![s] = 1]
    /\ pc' = [pc EXCEPT ![s] = "loop"]
    /\ UNCHANGED <<program, session_state, target_domain, user_learning_style,
                   analysis_result, ui>>

\* One pass of the loop body up to the resolver's provider call: a video or
\* reading step calls its resolver, any other step is passed over
LoopStep(s) ==
    /\ pc[s] = "loop"
    /\ step_idx[s] <= Len(learning_path_result[s])
    /\ LET i    == PositionOf(learning_path_result[s], step_idx[s])
           step == learning_path_result[s][i]
           fn   == ResolverFor(step)
       IN  IF fn = "none"
           THEN /\ step_idx' = [step_idx EXCEPT ![s] = @ + 1]
                /\ UNCHANGED <<pc, calls>>
           ELSE /\ calls' = [calls EXCEPT ![s] =
                      Append(@, ResolverCall(program, fn, i, QueryOf(step),
                                             target_domain[s]))]
                /\ pc' = [pc EXCEPT ![s] = "search"]
                /\ UNCHANGED step_idx
    /\ UNCHANGED <<program, session_state, target_domain, user_learning_style,
                   analysis_result, learning_path_result, ui>>

\* The provider answers (or fails) and the resolver ends: step.content is
\* assigned the returned value and the loop goes on.  An exception leaving the
\* resolver would reach the except clauses around the pipeline.
SearchReturns(s) ==
    /\ pc[s] = "search"
    /\ LET i  == PositionOf(learning_path_result[s], step_idx[s])
           fn == calls[s][Len(calls[s])].fn
       IN  \E outcome \in IF fn = "_search_youtube_video" THEN YouTubeOutcomes
                          ELSE WebSearchOutcomes :
             LET r == IF fn = "_search_youtube_video"
                      THEN search_youtube_video(program, outcome)
                      ELSE search_for_article(program, outcome)
             IN  IF r.raised
                 THEN /\ calls' = [calls EXCEPT ![s] = Append(@, Raise(fn, r.value))]
                      /\ ui' = [ui EXCEPT ![s] =
                                  Append(@, ErrorMessage(program, r.value))]
                      /\ pc' = [pc EXCEPT ![s] = "done"]
                      /\ UNCHANGED <<learning_path_result, step_idx>>
                 ELSE /\ learning_path_result' =
                            [learning_path_result EXCEPT ![s] =
                                AssignContent(@, i, r.value)]
                      /\ calls' = [calls EXCEPT ![s] = Append(@, Return(fn, r.value))]
                      /\ ui' = [ui EXCEPT ![s] =
                                  IF outcome.kind = "error"
                                  THEN Append(@, ResolverWarning(program, fn))
                                  ELSE @]
                      /\ step_idx' = [step_idx EXCEPT ![s] = @ + 1]
                      /\ pc' = [pc EXCEPT ![s] = "loop"]
    /\ UNCHANGED <<program, session_state, target_domain, user_learning_style,
                   analysis_result>>

\* The loop is over: the results are shown
LoopEnds(s) ==
    /\ pc[s] = "loop"
    /\ step_idx[s] > Len(learning_path_result[s])
    /\ ui' = [ui EXCEPT ![s] = Append(@, SuccessMessage(program))]
    /\ pc' = [pc EXCEPT ![s] = "done"]
    /\ UNCHANGED <<program, session_state, target_domain, user_learning_style,
                   analysis_result, learning_path_result, step_idx, calls>>

\* One user, one session
Next ==
    \/ Run("A")
    \/ GenerateMyPath("A")
    \/ AnalysisReturns("A")
    \/ GenerationRaises("A")
    \/ PathReturns("A")
    \/ LoopStep("A")
    \/ SearchReturns("A")
    \/ LoopEnds("A")

Spec == Init /\ [][Next]_vars

-----------------------------------------------------------------------------
(* Two browser sessions of app.py against the one agent of load_agent().    *)
(* The agent holds the model, the YouTube service and the chains and no     *)
(* field is assigned after __init__, so the sessions meet only in the       *)
(* order of their steps.  The users and the external services keep to a     *)
(* few answers here: one style, paths of at most one step.                  *)

SessionStyles == {"visual"}

SessionPaths ==
    { <<>>,
      <<[step |-> 1, title |-> "title", type |-> "video", content |-> "topic 1"]>>,
      <<[step |-> 1, title |-> "title", type |-> "project", content |-> "topic 1"]>> }

InitSessions == Init /\ program = "app"

NextSessions ==
    \E s \in Sessions :
        \/ GenerateMyPath(s) /\ user_learning_style'[s] \in SessionStyles
        \/ AnalysisReturns(s)
        \/ GenerationRaises(s)
        \/ PathReturns(s) /\ learning_path_result'[s] \in SessionPaths
        \/ LoopStep(s)
        \/ SearchReturns(s)
        \/ LoopEnds(s)

SpecSessions == InitSessions /\ [][NextSessions]_vars

-----------------------------------------------------------------------------
(* Vocabulary of the properties *)

GenerationFns == {"get_domain_analysis", "get_learning_path"}

ResolverFns == {"_search_youtube_video", "_search_for_article"}

\* The positions of the run's calls of the functions fns
CallsOf(s, fns) ==
    { k \in 1..Len(calls[s]) : calls[s][k].ev = "call" /\ calls[s][k].fn \in fns }

\* The run has shown msg to the caller
Shown(s, msg) == \E k \in 1..Len(ui[s]) : ui[s][k] = msg

ReportedSuccess(s) == Shown(s, SuccessMessage(program))

ReportedFailure(s) == \E exc \in GenerationErrors : Shown(s, ErrorMessage(program, exc))

ReportedNoRoles(s) == Shown(s, NoRolesMessage(program))

\* get_learning_path has returned in this run
PathGenerated(s) ==
    \E k \in 1..Len(calls[s]) :
        calls[s][k].ev = "return" /\ calls[s][k].fn = "get_learning_path"

\* The LearningPath.path as get_learning_path returned it, before enrichment
GeneratedPath(s) ==
    LET k == CHOOSE k \in 1..Len(calls[s]) :
                 calls[s][k].ev = "return" /\ calls[s][k].fn = "get_learning_path"
    IN  calls[s][k].value

\* The enrichment loop has run to its end
Enriched(s) ==
    /\ PathGenerated(s)
    /\ pc[s] \in {"loop", "done"}
    /\ step_idx[s] > Len(learning_path_result[s])

\* The analysis the run works with has been fixed and has no roles
UsesEmptyAnalysis(s) ==
    /\ pc[s] # "idle"
    /\ analysis_result[s] # NoAnalysis
    /\ Len(analysis_result[s].emerging_roles) = 0

-----------------------------------------------------------------------------
(* C1 *)

\* C1: a run whose DomainAnalysis has an empty emerging_roles list has halted:
\* it made no get_learning_path call and no resolver call, and what it reported
\* is the no-roles message, which is neither the success nor a failure message.
C1_NoRolesHalts ==
    \A s \in Sessions :
        UsesEmptyAnalysis(s) =>
            /\ pc[s] = "done"
            /\ CallsOf(s, {"get_learning_path"} \cup ResolverFns) = {}
            /\ ReportedNoRoles(s)
            /\ ~ReportedSuccess(s)
            /\ ~ReportedFailure(s)
            /\ NoRolesMessage(program) # SuccessMessage(program)
            /\ \A exc \in GenerationErrors :
                   NoRolesMessage(program) # ErrorMessage(program, exc)

\* A run of app.py that reused a cached analysis without roles and halted
C1_Witness ==
    /\ program = "app"
    /\ UsesEmptyAnalysis("A")
    /\ Shown("A", CachedInfoMessage)
    /\ ReportedNoRoles("A")
    /\ pc["A"] = "done"

-----------------------------------------------------------------------------
(* C2 *)

\* The URLs a resolver can return
Urls == { YouTubeUrl(v) : v \in VideoIds } \cup ArticleUrls

\* What a step's content holds when its search found nothing or failed: None in
\* app.py (display_learning_path tests "step.content is None"), one of the
\* four messages in Prototype.py
FailureValues(prog) ==
    IF prog = "app" THEN {None}
    ELSE {"No relevant video found.",
          "Could not fetch video link due to an API error.",
          "No relevant article found.",
          "Could not fetch article link due to a search error."}

Searched(step) == step.type \in {"video", "reading"}

\* C2: once the enrichment loop has finished, every video or reading step holds
\* the value its resolver returned when called with the step's original topic
\* (a URL or the failure value), and every project step holds the content the
\* generator produced.  If every resolver call returned None, all video and
\* reading steps hold None; if every call returned one URL, they all hold it.
C2_EnrichedContent ==
    \A s \in Sessions :
        Enriched(s) =>
            LET orig  == GeneratedPath(s)
                final == learning_path_result[s]
                rets  == { calls[s][k + 1].value : k \in CallsOf(s, ResolverFns) }
            IN  /\ Len(final) = Len(orig)
                /\ \A i \in 1..Len(orig) :
                     /\ Searched(orig[i]) =>
                          \E k \in CallsOf(s, ResolverFns) :
                              /\ calls[s][k].at = i
                              /\ calls[s][k].args.query = orig[i].content
                              /\ calls[s][k + 1].ev = "return"
                              /\ calls[s][k + 1].value = final[i].content
                              /\ final[i].content \in Urls \cup FailureValues(program)
                     /\ orig[i].type = "project" =>
                          final[i].content = orig[i].content
                /\ \A v \in Urls \cup {None} :
                     rets \subseteq {v} =>
                        \A i \in 1..Len(orig) :
                            Searched(orig[i]) => final[i].content = v

\* An enriched path of app.py with a project step and a video step whose search
\* found nothing
C2_Witness ==
    /\ program = "app"
    /\ Enriched("A")
    /\ \E i, j \in 1..Len(learning_path_result["A"]) :
         /\ GeneratedPath("A")[i].type = "project"
         /\ GeneratedPath("A")[j].type = "video"
         /\ GeneratedPath("A")[j].content \in Topics
         /\ learning_path_result["A"][j].content = None

-----------------------------------------------------------------------------
(* C3 *)

\* Every resolver call that has ended returned a URL or one of failvalues, no
\* run that got its path has reported a failure, and such a run ends with the
\* loop at its end and the success message
ResolversDegrade(failvalues) ==
    \A s \in Sessions :
        /\ \A k \in 1..Len(calls[s]) :
             (calls[s][k].fn \in ResolverFns /\ calls[s][k].ev # "call") =>
                 /\ calls[s][k].ev = "return"
                 /\ calls[s][k].value \in Urls \cup failvalues
        /\ PathGenerated(s) =>
             /\ ~ReportedFailure(s)
             /\ pc[s] \in {"loop", "search", "done"}
             /\ pc[s] = "done" => (Enriched(s) /\ ReportedSuccess(s))

-----------------------------------------------------------------------------
(* C4 *)

\* C4: a generation call that raised is the last call of its run: the run has
\* ended and reported the failure, not success, and that function was called
\* once in the run (no retry, no later generation or resolver call).
C4_GenerationFailureTerminal ==
    \A s \in Sessions :
        \A k \in 1..Len(calls[s]) :
            (calls[s][k].ev = "raise" /\ calls[s][k].fn \in GenerationFns) =>
                /\ k = Len(calls[s])
                /\ pc[s] = "done"
                /\ Shown(s, ErrorMessage(program, calls[s][k].exc))
                /\ ~ReportedSuccess(s)
                /\ ~ReportedNoRoles(s)
                /\ Cardinality(CallsOf(s, {calls[s][k].fn})) = 1
                /\ calls[s][k].fn = "get_domain_analysis" =>
                       CallsOf(s, {"get_learning_path"} \cup ResolverFns) = {}
                /\ CallsOf(s, ResolverFns) = {}

\* A run whose path generation failed schema validation
C4_Witness ==
    /\ pc["A"] = "done"
    /\ Len(calls["A"]) > 0
    /\ calls["A"][Len(calls["A"])] = Raise("get_learning_path", "ValidationError")

-----------------------------------------------------------------------------
(* C5 *)

\* C5: no resolver call is made for a project step and the step stays as the
\* generator produced it; when the loop has finished, the resolver calls are as
\* many as the video and reading steps.
C5_ProjectNeverResolved ==
    \A s \in Sessions :
        PathGenerated(s) =>
            LET orig == GeneratedPath(s)
                cur  == learning_path_result[s]
            IN  /\ \A i \in 1..Len(orig) :
                     orig[i].type = "project" =>
                         /\ cur[i] = orig[i]
                         /\ \A k \in CallsOf(s, ResolverFns) : calls[s][k].at # i
                /\ Enriched(s) =>
                     Cardinality(CallsOf(s, ResolverFns)) =
                         Cardinality({ i \in 1..Len(orig) : Searched(orig[i]) })

\* A finished loop over a path with a project step and a reading step
C5_Witness ==
    /\ Enriched("A")
    /\ \E i, j \in 1..Len(learning_path_result["A"]) :
         /\ GeneratedPath("A")[i].type = "project"
         /\ GeneratedPath("A")[j].type = "reading"
    /\ Cardinality(CallsOf("A", ResolverFns)) = 1

-----------------------------------------------------------------------------
(* C6 *)

\* C6: in every path the pipeline has enriched and presents, every step has the
\* type mapped from the requested style (so all steps share one type, and it is
\* one of video, reading, project).
C6_UniformStepType ==
    \A s \in Sessions :
        (Enriched(s) /\ ReportedSuccess(s)) =>
            \A i \in 1..Len(learning_path_result[s]) :
                /\ learning_path_result[s][i].type = StyleType(user_learning_style[s])
                /\ learning_path_result[s][i].type \in {"video", "reading", "project"}

-----------------------------------------------------------------------------
(* C7 *)

\* The stage of the pipeline a call belongs to
Stage(fn) ==
    CASE fn = "get_domain_analysis" -> 1
      [] fn = "get_learning_path" -> 2
      [] fn \in ResolverFns -> 3

\* C7: the calls of a run never overlap (every call has returned or raised
\* before the next one is issued, and at most the last one is pending), the
\* analysis call comes before the path call, the path call before every resolver
\* call, each generation call is made at most once, and the resolver calls are
\* issued in path order.
C7_StrictOrder ==
    \A s \in Sessions :
        LET c == calls[s]
        IN  /\ \A k \in 1..Len(c) :
                 IF k % 2 = 1 THEN c[k].ev = "call"
                 ELSE c[k].ev \in {"return", "raise"} /\ c[k].fn = c[k - 1].fn
            /\ (Len(c) % 2 = 1) <=> (pc[s] \in {"analysis", "path", "search"})
            /\ \A j, k \in CallsOf(s, GenerationFns \cup ResolverFns) :
                 j < k =>
                    /\ Stage(c[j].fn) <= Stage(c[k].fn)
                    /\ Stage(c[k].fn) < 3 => Stage(c[j].fn) < Stage(c[k].fn)
                    /\ Stage(c[j].fn) = 3 => c[j].at < c[k].at

\* A run that made all four kinds of call: analysis, path, and a resolver call
\* for each of two steps, all returned
C7_Witness ==
    /\ pc["A"] = "done"
    /\ CallsOf("A", {"get_domain_analysis"}) # {}
    /\ CallsOf("A", {"_search_youtube_video"}) # {}
    /\ CallsOf("A", {"_search_for_article"}) # {}
    /\ Len(calls["A"]) = 8

-----------------------------------------------------------------------------
(* C8 *)

\* The positions of the calls of get_domain_analysis in a call sequence
AnalysisCallsIn(c) ==
    { k \in 1..Len(c) : c[k].ev = "call" /\ c[k].fn = "get_domain_analysis" }

\* This step is a click on the button in session s
Clicked(s) ==
    /\ program = "app"
    /\ pc[s] \in {"idle", "done"}
    /\ <<pc'[s], target_domain'[s], user_learning_style'[s], ui'[s], calls'[s],
         analysis_result'[s], learning_path_result'[s]>>
         # <<pc[s], target_domain[s], user_learning_style[s], ui[s], calls[s],
             analysis_result[s], learning_path_result[s]>>

\* What a click with the cached domain does: no analysis call, the cached analysis
\* becomes the run's analysis, and the only call made is get_learning_path with
\* the skills of the cached analysis
ReusesCachedAnalysis(s) ==
    LET cached == session_state[s].analysis_result
    IN  /\ AnalysisCallsIn(calls'[s]) = {}
        /\ session_state'[s] = session_state[s]
        /\ analysis_result'[s] = cached
        /\ IF cached = NoAnalysis \/ Len(cached.emerging_roles) = 0
           THEN calls'[s] = <<>>
           ELSE calls'[s] =
                  <<get_learning_path(target_domain'[s],
                                      cached.emerging_roles[1].required_skills,
                                      user_learning_style'[s])>>

\* What a click with another domain does: the first thing is the analysis call
AnalysesFirst(s) == calls'[s] = <<get_domain_analysis(target_domain'[s])>>

\* Within a run no further analysis call is made
NoLaterAnalysisCall(s) ==
    pc[s] \notin {"idle", "done"} =>
        AnalysisCallsIn(calls'[s]) = AnalysisCallsIn(calls[s])

\* C8 as stated: in app.py a run for the domain of the session's latest
\* successful analysis makes no analysis call and works with the cached
\* analysis; a run for any other domain calls get_domain_analysis exactly once,
\* before anything else.
C8_Original ==
    [][\A s \in Sessions :
         /\ Clicked(s) =>
               IF target_domain'[s] = session_state[s].last_domain
               THEN ReusesCachedAnalysis(s)
               ELSE AnalysesFirst(s)
         /\ NoLaterAnalysisCall(s)]_vars

\* C8, amended: the same for a non-empty domain string; a run with the empty
\* domain string makes no call at all and leaves the cache as it is.
C8_ReanalysisAvoided ==
    [][\A s \in Sessions :
         /\ (Clicked(s) /\ target_domain'[s] # "") =>
               IF target_domain'[s] = session_state[s].last_domain
               THEN ReusesCachedAnalysis(s)
               ELSE AnalysesFirst(s)
         /\ (Clicked(s) /\ target_domain'[s] = "") =>
               (calls'[s] = <<>> /\ session_state'[s] = session_state[s])
         /\ NoLaterAnalysisCall(s)]_vars

\* A run that regenerates the path from the cached analysis: its only call so
\* far is get_learning_path, for the cached domain
C8_Witness ==
    /\ program = "app"
    /\ pc["A"] = "path"
    /\ target_domain["A"] = session_state["A"].last_domain
    /\ Shown("A", CachedInfoMessage)
    /\ Len(calls["A"]) = 1
    /\ calls["A"][1].fn = "get_learning_path"

-----------------------------------------------------------------------------
(* C9 *)

\* C9: each video or reading step gets at most one resolver call in a run,
\* exactly one when the loop has finished; the query of that call is the topic
\* the generator produced; the step's content is that topic until the call
\* returns and the returned value from then on.
C9_ResolvedExactlyOnce ==
    \A s \in Sessions :
        PathGenerated(s) =>
            LET orig == GeneratedPath(s)
                cur  == learning_path_result[s]
            IN  \A i \in 1..Len(orig) :
                    LET ks == { k \in CallsOf(s, ResolverFns) : calls[s][k].at = i }
                    IN  /\ Cardinality(ks) <= 1
                        /\ \A k \in ks :
                             /\ Searched(orig[i])
                             /\ calls[s][k].args.query = orig[i].content
                        /\ IF \E k \in ks : k < Len(calls[s])
                           THEN \A k \in ks : /\ calls[s][k + 1].ev = "return"
                                              /\ cur[i].content = calls[s][k + 1].value
                           ELSE cur[i].content = orig[i].content
                        /\ (Enriched(s) /\ Searched(orig[i])) => Cardinality(ks) = 1

\* The second step's search is pending while the first step already holds its URL
C9_Witness ==
    /\ pc["A"] = "search"
    /\ Len(learning_path_result["A"]) = 2
    /\ step_idx["A"] = 2
    /\ learning_path_result["A"][1].content \in Urls
    /\ GeneratedPath("A")[1].content = GeneratedPath("A")[2].content

-----------------------------------------------------------------------------
(* C10 *)

\* C10: every get_learning_path call of a run is made with the required_skills
\* of the first role of the run's analysis, in order, and with the domain and
\* the style the caller supplied for the run; the run's analysis is the one its
\* get_domain_analysis call returned, or the session's cached one if it made no
\* such call.
C10_FirstRoleSkills ==
    \A s \in Sessions :
        \A k \in CallsOf(s, {"get_learning_path"}) :
            /\ analysis_result[s] # NoAnalysis
            /\ Len(analysis_result[s].emerging_roles) >= 1
            /\ calls[s][k].args =
                 [domain |-> target_domain[s],
                  skills |-> analysis_result[s].emerging_roles[1].required_skills,
                  style  |-> user_learning_style[s]]
            /\ IF AnalysisCallsIn(calls[s]) # {}
               THEN /\ calls[s][1].args.domain = target_domain[s]
                    /\ calls[s][2] = Return("get_domain_analysis", analysis_result[s])
               ELSE analysis_result[s] = session_state[s].analysis_result

\* A path generation for an analysis with two roles, the first of which is Role 2
C10_Witness ==
    /\ pc["A"] = "path"
    /\ analysis_result["A"] = [emerging_roles |-> <<Role2, Role1>>]
    /\ calls["A"][Len(calls["A"])].args.skills = <<"ml">>
    /\ user_learning_style["A"] = "practical"

-----------------------------------------------------------------------------
(* C11 *)

\* This step changes something of session s's own script run
OwnStep(s) ==
    <<pc'[s], target_domain'[s], user_learning_style'[s], ui'[s], calls'[s],
      analysis_result'[s], learning_path_result'[s], step_idx'[s]>>
      # <<pc[s], target_domain[s], user_learning_style[s], ui[s], calls[s],
          analysis_result[s], learning_path_result[s], step_idx[s]>>

\* C11: with two sessions interleaving their runs in any order, a step of one
\* session leaves the other session's cached domain and analysis as they are;
\* whether a run of a session skips the analysis depends on that session's own
\* cached domain alone, and the analysis a run reuses is the one in its own
\* session's cache.
C11_SessionIsolation ==
    [][\A s \in Sessions :
         /\ ~OwnStep(s) => session_state'[s] = session_state[s]
         /\ (Clicked(s) /\ target_domain'[s] # "") =>
               /\ (AnalysisCallsIn(calls'[s]) = {})
                     <=> (target_domain'[s] = session_state[s].last_domain)
               /\ (AnalysisCallsIn(calls'[s]) = {}) =>
                     analysis_result'[s] = session_state[s].analysis_result]_vars

\* Session A reruns its cached domain and works with its own cached analysis
\* while session B holds another domain and another analysis in its cache
C11_Witness ==
    /\ pc["A"] = "path"
    /\ Shown("A", CachedInfoMessage)
    /\ AnalysisCallsIn(calls["A"]) = {}
    /\ session_state["B"].analysis_result # NoAnalysis
    /\ session_state["B"].last_domain # session_state["A"].last_domain
    /\ session_state["B"].analysis_result # session_state["A"].analysis_result
    /\ analysis_result["A"] = session_state["A"].analysis_result
    /\ pc["B"] = "done"

-----------------------------------------------------------------------------
(* C12 *)

\* The cache is empty, or it holds a domain that was asked for and an analysis
\* the language model returned
CacheWellFormed(s) ==
    \/ /\ session_state[s].last_domain = ""
       /\ session_state[s].analysis_result = NoAnalysis
    \/ /\ session_state[s].last_domain \in DomainInputs \ {""}
       /\ session_state[s].analysis_result \in Analyses

\* The run's get_domain_analysis call has returned
AnalysisSucceeded(c) ==
    /\ Len(c) >= 2
    /\ c[1].fn = "get_domain_analysis"
    /\ c[2].ev = "return"

\* The cache holds what the run's successful analysis call returned, for the
\* domain that call was made with
CacheIsLatestAnalysis(s) ==
    AnalysisSucceeded(calls[s]) =>
        session_state[s] = [analysis_result |-> calls[s][2].value,
                            last_domain |-> calls[s][1].args.domain]

\* In this step the analysis call of session s returns
AnalysisReturnStep(s) ==
    /\ pc[s] = "analysis"
    /\ AnalysisSucceeded(calls'[s])

\* The cache changes only when an analysis call returns, and then to the
\* returned analysis and the domain of that call; every other step (a click, a
\* rejected empty domain, a failed analysis or path call, the enrichment) leaves
\* last_domain and analysis_result as they are
CacheStep(s) ==
    IF AnalysisReturnStep(s)
    THEN session_state'[s] = [analysis_result |-> calls'[s][2].value,
                              last_domain |-> calls[s][1].args.domain]
    ELSE session_state'[s] = session_state[s]

\* C12: in app.py, after any sequence of runs in a session, either last_domain
\* is "" and analysis_result is None, or analysis_result is the DomainAnalysis
\* the latest successful get_domain_analysis call returned and last_domain is
\* the domain of that call; a run whose analysis call fails leaves both as
\* they were.
C12_CacheConsistent ==
    /\ [](\A s \in Sessions :
            program = "app" => (CacheWellFormed(s) /\ CacheIsLatestAnalysis(s)))
    /\ [][\A s \in Sessions : program = "app" => CacheStep(s)]_vars

\* A run for another domain whose analysis call failed schema validation: the
\* cache still holds the earlier domain and its analysis
C12_Witness ==
    /\ program = "app"
    /\ pc["A"] = "done"
    /\ Len(calls["A"]) = 2
    /\ calls["A"][2] = Raise("get_domain_analysis", "ValidationError")
    /\ session_state["A"].last_domain # ""
    /\ session_state["A"].last_domain # target_domain["A"]
    /\ session_state["A"].analysis_result \in Analyses

====
